---- MODULE Spec2Model ----
(***************************************************************************)
(* NUWorks co-op grader: main.py (JobScraper, main) and fetchOpenAi.py     *)
(* (JobScorer, getJobScore) as one sequential state machine.               *)
(*                                                                         *)
(* Text that the code inspects character by character (the scorer's reply) *)
(* is a sequence of characters; every other text is a TLA+ string.         *)
(***************************************************************************)
EXTENDS Integers, Sequences, FiniteSets, TLC

\* Largest number of entries under "models" in a fetched body.
MaxJobs == 2

\* main.py:188  process_jobs(jobs_data, min_score=50)
MIN_SCORE == 50

\* ------------------------------------------------------------------------
\* Python str operations used on the scorer's reply
\* ------------------------------------------------------------------------

\* Characters for which int() yields a decimal digit.
DecimalChars == {"0", "1", "2", "3", "4", "5", "6", "7", "8", "9"}

\* Characters str.isdigit() accepts: the decimal digits and digit-typed
\* characters such as U+00B2 SUPERSCRIPT TWO (written "sup2"), which int()
\* rejects.
IsDigitChars == DecimalChars \cup {"sup2"}

\* Characters str.strip() removes.
Whitespace == {" ", "\n", "\t"}

DigitVal(c) ==
    CASE c = "0" -> 0 [] c = "1" -> 1 [] c = "2" -> 2 [] c = "3" -> 3
      [] c = "4" -> 4 [] c = "5" -> 5 [] c = "6" -> 6 [] c = "7" -> 7
      [] c = "8" -> 8 [] c = "9" -> 9

RECURSIVE lstrip(_)
lstrip(s) ==
    IF s # <<>> /\ Head(s) \in Whitespace THEN lstrip(Tail(s)) ELSE s

RECURSIVE rstrip(_)
rstrip(s) ==
    IF s # <<>> /\ s[Len(s)] \in Whitespace
    THEN rstrip(SubSeq(s, 1, Len(s) - 1))
    ELSE s

\* str.strip()
strip(s) == rstrip(lstrip(s))

\* str.isdigit(): non-empty and every character is a digit character.
isdigit(s) == s # <<>> /\ \A k \in 1..Len(s) : s[k] \in IsDigitChars

\* int(s) raises ValueError on a digit character that is not decimal.
int_raises(s) == \E k \in 1..Len(s) : s[k] \notin DecimalChars

RECURSIVE int(_)
int(s) ==
    IF s = <<>> THEN 0
    ELSE 10 * int(SubSeq(s, 1, Len(s) - 1)) + DigitVal(s[Len(s)])

\* ------------------------------------------------------------------------
\* Query parameters and the deep link
\* ------------------------------------------------------------------------

\* A parameter value: an int, a str or a bool, as the f-string / the query
\* encoder renders it.
IntV(n) == [t |-> "int", n |-> n, s |-> ""]
StrV(s) == [t |-> "str", n |-> 0, s |-> s]
BoolV(b) == [t |-> "bool", n |-> 0, s |-> IF b THEN "True" ELSE "False"]

INDUSTRY == "112,147,24,109,83,116,141,142,143,89,105,104,97"

\* JobScraper.__init__: self.params (dict order is insertion order).
params ==
    << <<"perPage", IntV(100)>>,
       <<"page", IntV(0)>>,
       <<"sort", StrV("!postdate")>>,
       <<"ocr", StrV("f")>>,
       <<"job_type", IntV(5)>>,
       <<"industry", StrV(INDUSTRY)>>,
       <<"postdate", IntV(7)>>,
       <<"json_mode", StrV("read_only")>>,
       <<"enable_translation", BoolV(FALSE)>> >>

job_url_template == "https://northeastern-csm.symplicity.com/students/app/jobs/search"

\* generate_job_url without the currentJobId pair.
generate_job_url_no_id(job_id) ==
    [base |-> job_url_template,
     query |-> << <<"perPage", IntV(100)>>,
                  <<"page", IntV(1)>>,
                  <<"sort", StrV("!postdate")>>,
                  <<"ocr", StrV("f")>>,
                  <<"job_type", IntV(5)>>,
                  <<"industry", StrV(INDUSTRY)>>,
                  <<"postdate", IntV(7)>> >>]

\* generate_job_url: "<template>?" followed by "k=v" joined with "&"; the
\* link is kept as its base and its ordered (key, value) pairs.
generate_job_url(job_id) ==
    [base |-> job_url_template,
     query |-> << <<"perPage", IntV(100)>>,
                  <<"page", IntV(1)>>,
                  <<"sort", StrV("!postdate")>>,
                  <<"ocr", StrV("f")>>,
                  <<"job_type", IntV(5)>>,
                  <<"industry", StrV(INDUSTRY)>>,
                  <<"postdate", IntV(7)>>,
                  <<"currentJobId", job_id>> >>]

\* ------------------------------------------------------------------------
\* Data: upstream bodies, job records, scorer outcomes, files
\* ------------------------------------------------------------------------

\* One entry of "models". A dict entry carries the set of keys it has;
\* an entry that is not a dict (null, a string) has no .get.
FullRecord(pos) ==
    [isdict |-> TRUE,
     has |-> {"job_title", "name", "job_desc", "job_id"},
     job_title |-> "Quant Analyst Co-op",
     name |-> "Acme Capital",
     job_id |-> IntV(12344 + pos)]

NonDictRecord ==
    [isdict |-> FALSE, has |-> {}, job_title |-> "", name |-> "",
     job_id |-> StrV("")]

RecordKinds == {"full", "nondict"}

RecordOf(kind, pos) ==
    CASE kind = "full" -> FullRecord(pos)
      [] kind = "nondict" -> NonDictRecord

\* Every "models" list of at most MaxJobs entries.
ModelLists ==
    UNION { { [p \in 1..n |-> RecordOf(ks[p], p)] : ks \in [1..n -> RecordKinds] }
            : n \in 0..MaxJobs }

\* A value fetch_jobs can hold: None, or a parsed JSON body.  A dict body
\* is described by the keys it has and by whether "models" is a list.
NoneValue ==
    [shape |-> "None", has_models |-> FALSE, has_other |-> FALSE,
     models_is_list |-> FALSE, models |-> <<>>]

NonDictBody ==
    [shape |-> "nondict", has_models |-> FALSE, has_other |-> FALSE,
     models_is_list |-> FALSE, models |-> <<>>]

DictBody(hm, ho, il, ms) ==
    [shape |-> "dict", has_models |-> hm, has_other |-> ho,
     models_is_list |-> il, models |-> ms]

\* {} , {"error": ...} , {"models": null} , {"models": [...]} and a body
\* that is JSON but not an object.
Bodies ==
    {NonDictBody, DictBody(FALSE, FALSE, FALSE, <<>>),
     DictBody(FALSE, TRUE, FALSE, <<>>), DictBody(TRUE, FALSE, FALSE, <<>>)}
      \cup { DictBody(TRUE, FALSE, TRUE, ms) : ms \in ModelLists }

\* Outcomes of requests.get(...), raise_for_status() and response.json().
HttpOutcomes ==
    { [kind |-> k, body |-> NoneValue] :
        k \in {"ConnectionError", "Timeout", "HTTPError", "JSONDecodeError"} }
      \cup { [kind |-> "ok", body |-> b] : b \in Bodies }

\* Python truthiness of a fetch result: None and {} are falsy.
truthy(v) == v.shape = "dict" /\ (v.has_models \/ v.has_other)

\* Replies of the chat completion (message.content), as characters.
Contents ==
    { <<"8", "0">>, <<"5", "0">>, <<"4", "9">>, <<"1", "0", "0">>,
      <<"1", "5", "0">>, <<"0">>, <<"N", "/", "A">>, <<"sup2">>,
      <<>>, <<" ">>, <<" ", "6", "0", "\n">> }

\* The call raises, returns content None, or returns text.
ChatOutcomes ==
    { [kind |-> "raise", content |-> <<>>], [kind |-> "none", content |-> <<>>] }
      \cup { [kind |-> "text", content |-> c] : c \in Contents }

NoCall == [kind |-> "nocall", content |-> <<>>]

\* How an open(..., "w") + json.dump ends: written; open failed (file
\* untouched); or opened (truncated) and the dump failed part-way.
WriteResults == {"ok", "unchanged", "torn"}

AbsentFile == [state |-> "absent", jobs |-> <<>>]

\* goodJobs.json left by an earlier run.
StaleJob ==
    [jobTitle |-> "Old Co-op", companyName |-> "Old Corp",
     score |-> <<"7", "5">>, url |-> generate_job_url(IntV(999))]

StaleFile == [state |-> "json", jobs |-> <<StaleJob>>]

\* A write that dumps the list as it was before the last append.
write_json_before_append(file, jobs, w) ==
    CASE w = "ok" ->
           [state |-> "json",
            jobs |-> IF jobs = <<>> THEN jobs ELSE SubSeq(jobs, 1, Len(jobs) - 1)]
      [] w = "unchanged" -> file
      [] w = "torn" -> [state |-> "torn", jobs |-> <<>>]

\* File content after a write of {"jobs": jobs} that ends as w.
write_json(file, jobs, w) ==
    CASE w = "ok" -> [state |-> "json", jobs |-> jobs]
      [] w = "unchanged" -> file
      [] w = "torn" -> [state |-> "torn", jobs |-> <<>>]

\* dict.get(key, default)
Get(job, key, default) == IF key \in job.has THEN job[key] ELSE default

\* ------------------------------------------------------------------------
\* fetchOpenAi.py
\* ------------------------------------------------------------------------

ZeroStr == <<"0">>

\* score_job whose except branch returns an error text instead of "0".
score_job_error_text(out) ==
    CASE out.kind = "raise" -> <<"N", "/", "A">>
      [] out.kind = "none" -> <<"N", "/", "A">>
      [] out.kind = "text" -> strip(out.content)

\* JobScorer.score_job: the trimmed reply; "0" on any exception, which
\* includes content None (None has no .strip).
score_job(out) ==
    CASE out.kind = "raise" -> ZeroStr
      [] out.kind = "none" -> ZeroStr
      [] out.kind = "text" -> strip(out.content)

\* getJobScore: build the global JobScorer on first use (ValueError when
\* OPENAI_API_KEY is not set), then score_job.
getJobScore(scorer, key_set, out) ==
    IF scorer = "None" /\ ~key_set
    THEN [raised |-> TRUE, value |-> <<>>, scorer |-> "None"]
    ELSE [raised |-> FALSE, value |-> score_job(out), scorer |-> "JobScorer"]

\* ------------------------------------------------------------------------
\* main.py: JobScraper
\* ------------------------------------------------------------------------

\* fetch_jobs: RequestException and JSONDecodeError give None; a body
\* without .get, or whose "models" has no len(), raises out of the log line.
fetch_jobs(http) ==
    IF http.kind # "ok"
    THEN [raised |-> FALSE, value |-> NoneValue]
    ELSE IF http.body.shape # "dict"
    THEN [raised |-> TRUE, value |-> NoneValue]
    ELSE IF http.body.has_models /\ ~http.body.models_is_list
    THEN [raised |-> TRUE, value |-> NoneValue]
    ELSE [raised |-> FALSE, value |-> http.body]

\* main's test of the fetch result: "if not jobs_data".
fetch_failed(v) == ~truthy(v)

\* The score test with the comparison inverted.
meets_inverted(score, min_score) == score <= min_score

\* The score test with a strict comparison.
meets_strict(score, min_score) == score > min_score

\* The score test of process_jobs: score >= min_score.
meets(score, min_score) == score >= min_score

\* The ScoredJob built for an accepted record.
job_data_of(job, score_str) ==
    [jobTitle |-> Get(job, "job_title", "Unknown Title"),
     companyName |-> Get(job, "name", "Unknown Company"),
     score |-> score_str,
     url |-> generate_job_url(Get(job, "job_id", StrV("")))]

\* The normalisation without the "0" fallback for an empty reply.
normalise_strip_only(value) == strip(value)

\* The normalisation of the reply in process_jobs:
\* score_str.strip() if score_str else "0".
normalise(value) == IF value # <<>> THEN strip(value) ELSE ZeroStr

\* One pass of the loop body of process_jobs over `job`, with the chat
\* call ending as `out` and the incremental write as `w`.  Gives the new
\* good_jobs, the new file, the new scorer handle and what was logged.
iteration(job, scorer, key_set, out, w, min_score, good, file) ==
    IF ~job.isdict
    THEN [good |-> good, file |-> file, scorer |-> scorer, call |-> NoCall,
          scored |-> FALSE, score_str |-> <<>>, log |-> "error",
          write |-> "none"]
    ELSE
    LET r == getJobScore(scorer, key_set, out)
        score_str == normalise(r.value)
        added == Append(good, job_data_of(job, score_str))
    IN  IF r.raised
        THEN [good |-> good, file |-> file, scorer |-> r.scorer,
              call |-> NoCall, scored |-> FALSE, score_str |-> <<>>,
              log |-> "error", write |-> "none"]
        ELSE IF ~isdigit(score_str)
        THEN [good |-> good, file |-> file, scorer |-> r.scorer,
              call |-> out, scored |-> TRUE, score_str |-> score_str,
              log |-> "invalid", write |-> "none"]
        ELSE IF int_raises(score_str)
        THEN [good |-> good, file |-> file, scorer |-> r.scorer,
              call |-> out, scored |-> TRUE, score_str |-> score_str,
              log |-> "error", write |-> "none"]
        ELSE IF ~meets(int(score_str), min_score)
        THEN [good |-> good, file |-> file, scorer |-> r.scorer,
              call |-> out, scored |-> TRUE, score_str |-> score_str,
              log |-> "skipped", write |-> "none"]
        ELSE [good |-> added, file |-> write_json(file, added, w),
              scorer |-> r.scorer, call |-> out, scored |-> TRUE,
              score_str |-> score_str,
              log |-> IF w = "ok" THEN "added" ELSE "error",
              write |-> w]

\* ------------------------------------------------------------------------
\* State
\* ------------------------------------------------------------------------

VARIABLES
    pc,             \* where main is
    cookie_set,     \* NUWORKS_COOKIE is set
    key_set,        \* OPENAI_API_KEY is set
    fetched,        \* what fetch_jobs did: [called, raised, value, query]
    jobs_data,      \* main's jobs_data
    response_file,  \* response.json: "absent", "written", or "failed"
    good_jobs,      \* process_jobs' good_jobs
    i,              \* records the loop has gone through
    trace,          \* per record gone through: the call, score_str, what was
                    \* logged, the write, and good_jobs and the file after it
    job_scorer,     \* fetchOpenAi._job_scorer
    file0,          \* goodJobs.json when the run started
    good_jobs_file, \* goodJobs.json
    returned,       \* process_jobs has returned: [done, value]
    final_writes,   \* calls of save_good_jobs, each with how it ended
    exit_code       \* the process's exit status; -1 while it runs

vars ==
    <<pc, cookie_set, key_set, fetched, jobs_data, response_file, good_jobs,
      i, trace, job_scorer, file0, good_jobs_file, returned, final_writes,
      exit_code>>

NotFetched ==
    [called |-> FALSE, raised |-> FALSE, value |-> NoneValue, query |-> <<>>]

Init ==
    /\ pc = "construct"
    /\ cookie_set \in BOOLEAN
    /\ key_set \in BOOLEAN
    /\ fetched = NotFetched
    /\ jobs_data = NoneValue
    /\ response_file = "absent"
    /\ good_jobs = <<>>
    /\ i = 0
    /\ trace = <<>>
    /\ job_scorer = "None"
    /\ file0 \in {AbsentFile, StaleFile}
    /\ good_jobs_file = file0
    /\ returned = [done |-> FALSE, value |-> <<>>]
    /\ final_writes = <<>>
    /\ exit_code = -1

\* main's "except Exception": log and sys.exit(1).
Abort ==
    /\ pc' = "done"
    /\ exit_code' = 1

\* main: scraper = JobScraper(); raises ValueError without the cookie.
Construct ==
    /\ pc = "construct"
    /\ IF cookie_set
       THEN pc' = "fetch" /\ exit_code' = exit_code
       ELSE Abort
    /\ UNCHANGED <<cookie_set, key_set, fetched, jobs_data, response_file,
                   good_jobs, i, trace, job_scorer, file0, good_jobs_file,
                   returned, final_writes>>

\* main: jobs_data = scraper.fetch_jobs(); exit 1 if it raised or if
\* "not jobs_data".
FetchJobs ==
    /\ pc = "fetch"
    /\ \E http \in HttpOutcomes :
         LET r == fetch_jobs(http) IN
         /\ fetched' = [called |-> TRUE, raised |-> r.raised,
                        value |-> r.value, query |-> params]
         /\ IF r.raised \/ fetch_failed(r.value)
            THEN Abort /\ jobs_data' = jobs_data
            ELSE /\ pc' = "save_response"
                 /\ jobs_data' = r.value
                 /\ exit_code' = exit_code
    /\ UNCHANGED <<cookie_set, key_set, response_file, good_jobs, i, trace,
                   job_scorer, file0, good_jobs_file, returned, final_writes>>

\* main: scraper.save_response(jobs_data); an IOError is logged.
SaveResponse ==
    /\ pc = "save_response"
    /\ response_file' \in {"written", "failed"}
    /\ pc' = "process_jobs"
    /\ UNCHANGED <<cookie_set, key_set, fetched, jobs_data, good_jobs, i,
                   trace, job_scorer, file0, good_jobs_file, returned,
                   final_writes, exit_code>>

\* process_jobs, up to the loop: without "models" it returns [].
ProcessStart ==
    /\ pc = "process_jobs"
    /\ IF ~truthy(jobs_data) \/ ~jobs_data.has_models
       THEN /\ pc' = "save_good_jobs"
            /\ returned' = [done |-> TRUE, value |-> <<>>]
       ELSE /\ pc' = "loop"
            /\ returned' = returned
    /\ good_jobs' = <<>>
    /\ i' = 0
    /\ UNCHANGED <<cookie_set, key_set, fetched, jobs_data, response_file,
                   trace, job_scorer, file0, good_jobs_file, final_writes,
                   exit_code>>

\* process_jobs: one pass of the loop body.
ProcessJob ==
    /\ pc = "loop"
    /\ i < Len(jobs_data.models)
    /\ \E out \in ChatOutcomes, w \in WriteResults :
         LET it == iteration(jobs_data.models[i + 1], job_scorer, key_set,
                             out, w, MIN_SCORE, good_jobs, good_jobs_file)
         IN  /\ good_jobs' = it.good
             /\ good_jobs_file' = it.file
             /\ job_scorer' = it.scorer
             /\ trace' = Append(trace,
                                [pos |-> i + 1, call |-> it.call,
                                 scored |-> it.scored,
                                 score_str |-> it.score_str, log |-> it.log,
                                 write |-> it.write, good |-> it.good,
                                 file |-> it.file])
    /\ i' = i + 1
    /\ UNCHANGED <<pc, cookie_set, key_set, fetched, jobs_data,
                   response_file, file0, returned, final_writes, exit_code>>

\* process_jobs: the loop is over; return good_jobs.
ProcessReturn ==
    /\ pc = "loop"
    /\ i = Len(jobs_data.models)
    /\ returned' = [done |-> TRUE, value |-> good_jobs]
    /\ pc' = "save_good_jobs"
    /\ UNCHANGED <<cookie_set, key_set, fetched, jobs_data, response_file,
                   good_jobs, i, trace, job_scorer, file0, good_jobs_file,
                   final_writes, exit_code>>

\* main: scraper.save_good_jobs(good_jobs), an IOError is logged; then the
\* process ends with status 0.
SaveGoodJobs ==
    /\ pc = "save_good_jobs"
    /\ \E w \in WriteResults :
         /\ good_jobs_file' = write_json(good_jobs_file, returned.value, w)
         /\ final_writes' = Append(final_writes, w)
    /\ pc' = "done"
    /\ exit_code' = 0
    /\ UNCHANGED <<cookie_set, key_set, fetched, jobs_data, response_file,
                   good_jobs, i, trace, job_scorer, file0, returned>>

Next ==
    \/ Construct
    \/ FetchJobs
    \/ SaveResponse
    \/ ProcessStart
    \/ ProcessJob
    \/ ProcessReturn
    \/ SaveGoodJobs

Spec == Init /\ [][Next]_vars

\* ------------------------------------------------------------------------
\* Vocabulary of the properties, stated apart from the code's operators
\* ------------------------------------------------------------------------

Digits09 == <<"0", "1", "2", "3", "4", "5", "6", "7", "8", "9">>

IsDigit09(c) == \E q \in 1..10 : Digits09[q] = c

\* A non-negative decimal integer string.
IsDecimalInteger(s) == Len(s) > 0 /\ \A k \in 1..Len(s) : IsDigit09(s[k])

\* The digit a character of Digits09 stands for.
DigitOf(c) ==
    Cardinality({ q \in 1..10 : \E r \in 1..10 : Digits09[r] = c /\ q < r })

RECURSIVE ValueFrom(_, _)
ValueFrom(s, acc) ==
    IF s = <<>> THEN acc
    ELSE ValueFrom(Tail(s), 10 * acc + DigitOf(Head(s)))

\* The number a decimal integer string denotes.
Value(s) == ValueFrom(s, 0)

\* s without leading and trailing blanks.
Trim(s) ==
    LET solid == { k \in 1..Len(s) : s[k] \notin {" ", "\n", "\t"} }
        keep == { k \in 1..Len(s) :
                    (\E a \in solid : a <= k) /\ (\E b \in solid : k <= b) }
        lead == { k \in 1..Len(s) : \A a \in solid : k < a }
    IN  [k \in 1..Cardinality(keep) |-> s[k + Cardinality(lead)]]

IsPrefix(a, b) == Len(a) <= Len(b) /\ SubSeq(b, 1, Len(a)) = a

\* What the scorer handed back for a record: the trimmed text of the
\* reply, or "0" when the call failed.
ScorerReply(call) ==
    IF call.kind = "text" THEN Trim(call.content) ELSE <<"0">>

\* The record at trace entry e was scored and its reply is a decimal
\* integer of at least the threshold.
Qualifies(e) ==
    /\ e.call.kind # "nocall"
    /\ IsDecimalInteger(ScorerReply(e.call))
    /\ Value(ScorerReply(e.call)) >= MIN_SCORE

\* good_jobs before the k-th pass of the loop.
GoodBefore(k) == IF k = 1 THEN <<>> ELSE trace[k - 1].good

\* The k-th pass appended its record to good_jobs.
Accepted(k) ==
    /\ Len(trace[k].good) = Len(GoodBefore(k)) + 1
    /\ IsPrefix(GoodBefore(k), trace[k].good)

\* The job id a record carries (empty when it has none).
JobIdOf(rec) == IF "job_id" \in rec.has THEN rec.job_id ELSE StrV("")

\* The fetch handed main a parsed body (anything but None).
FetchReturnedResult ==
    fetched.called /\ ~fetched.raised /\ fetched.value # NoneValue

\* ------------------------------------------------------------------------
\* C1
\* ------------------------------------------------------------------------

\* The positions, in fetch order, whose reply qualifies.
QualifyingPositions ==
    LET n == Len(jobs_data.models)
        Test(p) == p <= Len(trace) /\ Qualifies(trace[p])
    IN  SelectSeq([p \in 1..n |-> p], Test)

\* C1: the list process_jobs returns is exactly the records, in fetch
\* order, whose scorer reply is a decimal integer string of value >=
\* min_score (a reply equal to the threshold included), and a successful
\* final write leaves exactly that list in the accepted-jobs file.
C1_ReturnsExactlyQualifying ==
    returned.done =>
      /\ Len(returned.value) = Len(QualifyingPositions)
      /\ \A k \in 1..Len(returned.value) :
           LET p == QualifyingPositions[k]
               sj == returned.value[k]
           IN  /\ sj.url.query[Len(sj.url.query)]
                    = <<"currentJobId", JobIdOf(jobs_data.models[p])>>
               /\ sj.score = ScorerReply(trace[p].call)
      /\ (pc = "done" /\ final_writes = <<"ok">>
            => good_jobs_file = [state |-> "json", jobs |-> returned.value])

\* A low reply followed by a reply equal to the threshold: only the second
\* record is returned.
C1_Witness ==
    /\ pc = "done"
    /\ final_writes = <<"ok">>
    /\ Len(trace) = 2
    /\ trace[1].call = [kind |-> "text", content |-> <<"4", "9">>]
    /\ trace[2].call = [kind |-> "text", content |-> <<"5", "0">>]
    /\ Len(returned.value) = 1
    /\ returned.value[1].url.query[8] = <<"currentJobId", IntV(12346)>>

\* ------------------------------------------------------------------------
\* C6
\* ------------------------------------------------------------------------

\* C6: whatever fails in single scoring calls or single records, the loop
\* goes through every record once, in fetch order, and returns; a record
\* whose scoring call raised gets score "0" and is not accepted; every
\* record is accepted exactly when its own reply qualifies.
C6_LoopSurvivesFailures ==
    /\ Len(trace) = i
    /\ \A k \in 1..Len(trace) : trace[k].pos = k
    /\ (trace # <<>> => exit_code # 1)
    /\ (returned.done /\ jobs_data.has_models
          => Len(trace) = Len(jobs_data.models))
    /\ \A k \in 1..Len(trace) :
         /\ (trace[k].call.kind = "raise"
               => /\ trace[k].scored
                  /\ trace[k].score_str = <<"0">>
                  /\ ~Accepted(k))
         /\ (Accepted(k) <=> Qualifies(trace[k]))
         /\ (~Accepted(k) => trace[k].good = GoodBefore(k))

\* A scoring call that raised, then a record that is accepted, and the
\* run ends normally.
C6_Witness ==
    /\ pc = "done"
    /\ exit_code = 0
    /\ Len(trace) = 2
    /\ trace[1].call.kind = "raise"
    /\ trace[1].log = "skipped"
    /\ trace[2].log = "added"
    /\ Len(good_jobs) = 1

\* ------------------------------------------------------------------------
\* C2
\* ------------------------------------------------------------------------

\* goodJobs.json before the k-th pass of the loop.
FileBefore(k) == IF k = 1 THEN file0 ELSE trace[k - 1].file

\* C2 as stated: the file read right after every acceptance holds exactly
\* the jobs accepted so far, in discovery order, and later snapshots extend
\* earlier ones.
C2_SnapshotAfterEveryAcceptance ==
    /\ \A k \in 1..Len(trace) :
         Accepted(k)
           => trace[k].file = [state |-> "json", jobs |-> trace[k].good]
    /\ \A k, l \in 1..Len(trace) :
         k <= l /\ Accepted(k) /\ Accepted(l)
           => IsPrefix(trace[k].file.jobs, trace[l].file.jobs)

\* C2, amended: the file read right after an acceptance whose incremental
\* write succeeded holds exactly the jobs accepted so far, in discovery
\* order; such snapshots are prefixes of one another and of the accepted
\* list.  A failed incremental write keeps the job accepted and leaves the
\* file as it was, or truncated; a pass that accepts nothing leaves the
\* file alone.
C2_SnapshotAfterSuccessfulWrite ==
    /\ \A k \in 1..Len(trace) :
         /\ (Accepted(k) /\ trace[k].write = "ok"
               => trace[k].file = [state |-> "json", jobs |-> trace[k].good])
         /\ (Accepted(k) /\ trace[k].write = "unchanged"
               => trace[k].file = FileBefore(k))
         /\ (Accepted(k) /\ trace[k].write = "torn"
               => trace[k].file.state = "torn")
         /\ (Accepted(k) <=> trace[k].write # "none")
         /\ (~Accepted(k) => trace[k].file = FileBefore(k))
    /\ \A k, l \in 1..Len(trace) :
         k <= l /\ trace[k].write = "ok" /\ trace[l].write = "ok"
           => /\ IsPrefix(trace[k].file.jobs, trace[l].file.jobs)
              /\ IsPrefix(trace[l].file.jobs, good_jobs)
              /\ Len(trace[k].file.jobs) < Len(trace[l].file.jobs) \/ k = l

\* Two acceptances: the first write fails and leaves an earlier run's
\* file, the second succeeds and the file holds both jobs.
C2_Witness ==
    /\ Len(trace) = 2
    /\ Accepted(1) /\ Accepted(2)
    /\ trace[1].write = "unchanged"
    /\ trace[1].file = StaleFile
    /\ trace[2].write = "ok"
    /\ good_jobs_file.state = "json"
    /\ Len(good_jobs_file.jobs) = 2

\* ------------------------------------------------------------------------
\* C7
\* ------------------------------------------------------------------------

\* The fetch query with page set to 1 and currentJobId added at the end.
FetchQueryAsLink(query, job_id) ==
    [p \in 1..(Len(query) + 1) |->
       IF p > Len(query) THEN <<"currentJobId", job_id>>
       ELSE IF query[p][1] = "page" THEN <<"page", IntV(1)>>
       ELSE query[p]]

Keys(query) == { query[p][1] : p \in 1..Len(query) }

\* C7 as stated: the link of every accepted job carries every parameter of
\* the fetch query, same values, same order, page 1, plus currentJobId.
C7_LinkReproducesFetchQuery ==
    \A k \in 1..Len(trace) :
      Accepted(k) =>
        trace[k].good[Len(trace[k].good)].url.query
          = FetchQueryAsLink(fetched.query, JobIdOf(jobs_data.models[k]))

\* C7, amended: the link carries the first seven parameters of the fetch
\* query (perPage, page, sort, ocr, job_type, industry, postdate) in the
\* same order and with the same values except page = 1, followed by
\* currentJobId = the record's identifier; json_mode and enable_translation,
\* which the fetch sends, are not in the link.
C7_LinkReproducesSearchParameters ==
    \A k \in 1..Len(trace) :
      Accepted(k) =>
        LET url == trace[k].good[Len(trace[k].good)].url IN
        /\ url.base = job_url_template
        /\ url.query
             = FetchQueryAsLink(SubSeq(fetched.query, 1, 7),
                                JobIdOf(jobs_data.models[k]))
        /\ Keys(fetched.query) \ Keys(url.query)
             = {"json_mode", "enable_translation"}

\* An accepted job whose identifier is 12345.
C7_Witness ==
    /\ good_jobs # <<>>
    /\ Len(good_jobs[1].url.query) = 8
    /\ good_jobs[1].url.query[2] = <<"page", IntV(1)>>
    /\ good_jobs[1].url.query[8] = <<"currentJobId", IntV(12345)>>

\* ------------------------------------------------------------------------
\* C8
\* ------------------------------------------------------------------------

\* C8 as stated: every score in the accepted-jobs file is a decimal
\* integer between min_score and 100.
C8_StoredScoreWithinRange ==
    \A k \in 1..Len(good_jobs_file.jobs) :
      /\ IsDecimalInteger(good_jobs_file.jobs[k].score)
      /\ Value(good_jobs_file.jobs[k].score) >= MIN_SCORE
      /\ Value(good_jobs_file.jobs[k].score) <= 100

\* C8, amended: every score in the accepted-jobs file and in the accepted
\* list is a decimal integer string of value >= min_score, and it is the
\* scorer's reply as received: there is no upper bound, a reply of "150"
\* is stored as "150".
C8_StoredScoreAtLeastThreshold ==
    /\ \A k \in 1..Len(good_jobs_file.jobs) :
         /\ IsDecimalInteger(good_jobs_file.jobs[k].score)
         /\ Value(good_jobs_file.jobs[k].score) >= MIN_SCORE
    /\ \A k \in 1..Len(good_jobs) :
         /\ IsDecimalInteger(good_jobs[k].score)
         /\ Value(good_jobs[k].score) >= MIN_SCORE
    /\ \A k \in 1..Len(trace) :
         Accepted(k) =>
           trace[k].good[Len(trace[k].good)].score = ScorerReply(trace[k].call)

\* The file holds an entry whose score is "150".
C8_Witness ==
    /\ good_jobs_file.state = "json"
    /\ \E k \in 1..Len(good_jobs_file.jobs) :
         good_jobs_file.jobs[k].score = <<"1", "5", "0">>

\* ------------------------------------------------------------------------
\* C10
\* ------------------------------------------------------------------------

IsDigitLike(c) == IsDigit09(c) \/ c = "sup2"

C3_FailsFastOnMissingConfiguration ==
    pc = "done" /\ (~cookie_set \/ ~key_set) =>
      /\ exit_code = 1
      /\ jobs_data = NoneValue
      /\ trace = <<>>
      /\ response_file = "absent"
      /\ final_writes = <<>>
      /\ good_jobs_file = file0

\* C4: the process ends with status 0 exactly when the fetch returned a
\* parsed response and no exception reached main's handler.
C4_ExitZeroIffFetchReturned ==
    pc = "done" =>
      (exit_code = 0 <=> cookie_set /\ FetchReturnedResult)

\* C5: fetch_jobs never raises; it returns None or the parsed structure.
C5_FetchNeverRaises ==
    fetched.called =>
      /\ ~fetched.raised
      /\ fetched.value.shape \in {"None", "dict"}

\* C9: on every run whose fetch returned a result the accepted-jobs file
\* is written once at the end, after every record, and a successful write
\* leaves the complete accepted list in it.
C9_OneFinalWrite ==
    /\ Len(final_writes) <= 1
    /\ (final_writes # <<>>
          => returned.done /\ Len(trace) = Len(jobs_data.models))
    /\ (pc = "done" /\ FetchReturnedResult
          => /\ Len(final_writes) = 1
             /\ (final_writes[1] = "ok"
                   => good_jobs_file = [state |-> "json", jobs |-> good_jobs]))

====
